---- MODULE Spec2Model ----
(***************************************************************************)
(* Model of WebScraper (Web_Scrapper.py): the constructor's directory      *)
(* creation, scrape() and the four extraction modes, and clean_text.       *)
(*                                                                         *)
(* Text is a sequence of one-character strings.  A file name is the        *)
(* sequence of its dot-separated components (<<"a", "pdf">> is a.pdf).     *)
(***************************************************************************)
EXTENDS Integers, Sequences, FiniteSets, TLC

\* ---------------------------------------------------------------- bounds
MaxLen == 3        \* longest input text given to clean_text
MaxAnchors == 2    \* most <a href> tags on the fetched page
MaxImages == 1     \* most <img src> tags on the fetched page

\* ------------------------------------------------------------ text model
Alphabet == {"<", ">", "a", " ", "\n"}

IsSpaceChar(c) == c \in {" ", "\n"}

IsPunctChar(c) == c \in {"<", ">"}

Strings(n) == UNION {[1..k -> Alphabet] : k \in 0..n}

\* Index of the '>' that closes a tag opened at s[i] = '<' under the pattern
\* <.*?> : the first '>' after i, provided no newline lies in between ('.'
\* does not match a newline); 0 when there is no match starting at i.
TagEnd(s, i) ==
    LET closers == {j \in (i+1)..Len(s) :
                      /\ s[j] = ">"
                      /\ \A k \in (i+1)..(j-1) : s[k] # "\n" /\ s[k] # ">"}
    IN  IF s[i] = "<" /\ closers # {} THEN CHOOSE j \in closers : TRUE ELSE 0

RECURSIVE StripFrom(_, _)
StripFrom(s, i) ==
    IF i > Len(s) THEN <<>>
    ELSE IF TagEnd(s, i) # 0 THEN StripFrom(s, TagEnd(s, i) + 1)
    ELSE <<s[i]>> \o StripFrom(s, i + 1)

\* re.sub(r'<.*?>', '', text)
StripTags(s) == StripFrom(s, 1)

\* End of the token that starts at s[i]: a punctuation character is a token
\* of its own; a run of letters, or a run of whitespace, is one token.
RECURSIVE TokenEnd(_, _)
TokenEnd(s, i) ==
    IF IsPunctChar(s[i]) \/ i = Len(s) THEN i
    ELSE IF IsPunctChar(s[i+1]) \/ IsSpaceChar(s[i+1]) # IsSpaceChar(s[i]) THEN i
    ELSE TokenEnd(s, i + 1)

RECURSIVE TokensFrom(_, _)
TokensFrom(s, i) ==
    IF i > Len(s) THEN <<>>
    ELSE <<SubSeq(s, i, TokenEnd(s, i))>> \o TokensFrom(s, TokenEnd(s, i) + 1)

\* doc = self.nlp(text): the tokens of the text, whitespace tokens included
Tokenize(s) == TokensFrom(s, 1)

\* token.is_space
IsSpaceToken(t) == IsSpaceChar(t[1])

RECURSIVE JoinTokens(_)
JoinTokens(toks) ==
    IF toks = <<>> THEN <<>>
    ELSE IF Len(toks) = 1 THEN toks[1]
    ELSE toks[1] \o <<" ">> \o JoinTokens(Tail(toks))

JoinKeepingSpaceTokens(s) == JoinTokens(Tokenize(s))

\* ' '.join([token.text for token in doc if not token.is_space])
JoinNonSpaceTokens(s) ==
    JoinTokens(SelectSeq(Tokenize(s), LAMBDA t : ~IsSpaceToken(t)))

clean_text(text) == JoinNonSpaceTokens(StripTags(text))

\* s still holds a substring the pattern <.*?> matches
HasTag(s) == \E i \in 1..Len(s) : TagEnd(s, i) # 0

\* ------------------------------------------------------- page and URLs
SiteHost == "h"

Rel(name) == [kind |-> "rel", host |-> "", name |-> name]

Abs(host, name) == [kind |-> "abs", host |-> host, name |-> name]

\* an href whose network location does not parse ("http://[/a.pdf")
Bad(name) == [kind |-> "bad", host |-> "[", name |-> name]

HrefUniverse ==
    { Rel(<<"a", "pdf">>), Rel(<<"a", "txt">>), Rel(<<"b", "PDF", "zip">>),
      Rel(<<"c", "html">>), Abs(SiteHost, <<"c", "html">>), Bad(<<"a", "pdf">>) }

SrcUniverse == { Rel(<<"i", "png">>), Bad(<<"i", "png">>) }

\* the bodies a server answers a document request with
Contents == { <<"a">>, <<"a", " ", " ", "a">> }

\* the text a document decoder (PDF, DOCX, CSV, sheet) yields when it succeeds
DecodedTexts == { <<"a", "\n", "<", "a", ">", "a">> }

\* the body of an image answer, and the text OCR yields when it succeeds
ImageBytes == { <<"a">> }

OcrTexts == { <<"a", " ", " ", "a">> }

\* soup.get_text(separator=' ', strip=True) of the fetched page
PageTexts == { <<"a", " ", " ", "a">> }

SeqsUpTo(S, n) == UNION {[1..k -> S] : k \in 0..n}

\* urllib.parse.urljoin raises ValueError on an unparseable href
UrljoinRaises(href) == href.kind = "bad"

\* urllib.parse.urljoin(base_url, href), base_url being scheme://netloc of
\* the scraped URL: a relative href takes the site's host
Urljoin(href) ==
    [host |-> IF href.kind = "abs" THEN href.host ELSE SiteHost,
     name |-> href.name]

\* os.path.basename(href)
Basename(href) == href.name

\* str.lower() on a name component
Lower(c) == IF c = "PDF" THEN "pdf" ELSE c

doc_extensions == {"pdf", "docx", "doc", "txt", "csv", "xls", "xlsx"}

\* any(ext in href.lower() for ext in doc_extensions)
IsDocHref(href) ==
    \E i \in 2..Len(href.name) : Lower(href.name[i]) \in doc_extensions

\* os.path.splitext(name): <<root, extension>>
Splitext(name) ==
    IF Len(name) >= 2 THEN <<SubSeq(name, 1, Len(name) - 1), name[Len(name)]>>
    ELSE <<name, "">>

\* os.path.splitext(filepath)[1].lower()
FileExt(name) == Lower(Splitext(name)[2])

\* f"{os.path.splitext(os.path.basename(filepath))[0]}.txt"
TextFilename(name) == Splitext(name)[1] \o <<"txt">>

\* ------------------------------------------------------------ file maps
NoFiles == [f \in {} |-> <<>>]

Put(files, name, content) ==
    [f \in (DOMAIN files) \cup {name} |-> IF f = name THEN content ELSE files[f]]

\* ------------------------------------------------------------- __init__
Modes == {"Text", "Links", "Documents", "Images"}

\* os.makedirs(path, exist_ok=True) creates the workspace root with any
\* subdirectory
InitDirsAllUnconditional(m) == {"root", "links", "documents", "images"}

InitDirsImagesForDocuments(m) ==
    (IF "Links" \in m THEN {"root", "links"} ELSE {})
    \cup (IF "Documents" \in m THEN {"root", "images"} ELSE {})
    \cup (IF "Images" \in m THEN {"root", "images"} ELSE {})
    \cup (IF "Text" \in m THEN {"root"} ELSE {})

InitDirs(m) ==
    (IF "Links" \in m THEN {"root", "links"} ELSE {})
    \cup (IF "Documents" \in m THEN {"root", "documents"} ELSE {})
    \cup (IF "Images" \in m THEN {"root", "images"} ELSE {})
    \cup (IF "Text" \in m THEN {"root"} ELSE {})

VARIABLES text, cleaned, recleaned, cpc,
          modes, dirs, pc, response, anchors, imgs, result, Summary,
          links, linksWrite, linksFiles, docsFiles, imagesFiles, rootFiles,
          docIdx, documents_downloaded, docAttempts, docFetchFailed,
          docSaveFailed, last,
          imgIdx, images_downloaded, imgAttempts,
          ui, shown, archive

svars == <<modes, dirs, pc, response, anchors, imgs, result, Summary,
           links, linksWrite, linksFiles, docsFiles, imagesFiles, rootFiles,
           docIdx, documents_downloaded, docAttempts, docFetchFailed,
           docSaveFailed, last,
           imgIdx, images_downloaded, imgAttempts>>


cvars == <<text, cleaned, recleaned, cpc>>

\* the Streamlit page of app.py: where main() stands, the elements it has
\* displayed, and whether the zip archive of the workspace was built
avars == <<ui, shown, archive>>

vars == <<cvars, svars, avars>>

\* ------------------------------------------------------------- scrape()
\* the order of the mode blocks of scrape()
StageOrder ==
    << [pc |-> "links", mode |-> "Links"], [pc |-> "docs", mode |-> "Documents"],
       [pc |-> "images", mode |-> "Images"], [pc |-> "text", mode |-> "Text"] >>

StageIndex(stage) ==
    CASE stage = "fetch" -> 0 [] stage = "links" -> 1 [] stage = "docs" -> 2
      [] stage = "images" -> 3 [] stage = "text" -> 4

\* the next `if self.extract_...:` block of scrape() whose flag is set
NextStage(stage, m) ==
    LET later == {i \in (StageIndex(stage) + 1)..4 : StageOrder[i].mode \in m}
    IN  IF later = {} THEN "return"
        ELSE StageOrder[CHOOSE i \in later : \A j \in later : i <= j].pc

AfterRootFetchNoAbort(resp, m) == NextStage("fetch", m)

\* `if not response: ... return`, else on to the mode blocks
AfterRootFetch(resp, m) ==
    IF resp = "none" THEN "aborted" ELSE NextStage("fetch", m)

NoEvent ==
    [href |-> Rel(<<>>), fetch |-> "none", bytes |-> <<>>, saved |-> FALSE,
     extract |-> "none"]

CountEntry(label, n) == [kind |-> "count", label |-> label, n |-> n]

StatusEntry(s) == [kind |-> "status", status |-> s]

\* the value of a function that falls off its end without a return
NoneEntry == [kind |-> "None"]

ScraperStart(m) ==
    /\ modes = m
    /\ dirs = InitDirs(m)
    /\ pc = "fetch"
    /\ response = "unset"
    /\ anchors = <<>>
    /\ imgs = <<>>
    /\ result = "running"
    /\ Summary = <<>>
    /\ links = <<>>
    /\ linksWrite = "unset"
    /\ linksFiles = NoFiles
    /\ docsFiles = NoFiles
    /\ imagesFiles = NoFiles
    /\ rootFiles = NoFiles
    /\ docIdx = 1
    /\ documents_downloaded = 0
    /\ docAttempts = 0
    /\ docFetchFailed = 0
    /\ docSaveFailed = 0
    /\ last = NoEvent
    /\ imgIdx = 1
    /\ images_downloaded = 0
    /\ imgAttempts = 0

UNCHANGED_links == UNCHANGED <<links, linksWrite, linksFiles>>

UNCHANGED_docs ==
    UNCHANGED <<docsFiles, docIdx, documents_downloaded, docAttempts,
                docFetchFailed, docSaveFailed, last>>

UNCHANGED_images == UNCHANGED <<imagesFiles, imgIdx, images_downloaded, imgAttempts>>

UNCHANGED_page == UNCHANGED <<modes, dirs, response, anchors, imgs>>

\* fetch_page_content() returns a response; scrape() parses it
FetchRootOk ==
    /\ pc = "fetch"
    /\ response' = "ok"
    /\ anchors' \in SeqsUpTo(HrefUniverse, MaxAnchors)
    /\ pc' = AfterRootFetch("ok", modes)
    /\ UNCHANGED <<modes, dirs, imgs, result, Summary, rootFiles, cvars, avars>>
    /\ UNCHANGED_links /\ UNCHANGED_docs /\ UNCHANGED_images

\* fetch_page_content() catches RequestException (connection error, timeout,
\* raise_for_status on a non-2xx answer) and returns None
FetchRootFail ==
    /\ pc = "fetch"
    /\ response' = "none"
    /\ pc' = AfterRootFetch("none", modes)
    /\ result' = IF pc' = "aborted" THEN "none" ELSE result
    /\ UNCHANGED <<modes, dirs, anchors, imgs, Summary, rootFiles, cvars, avars>>
    /\ UNCHANGED_links /\ UNCHANGED_docs /\ UNCHANGED_images

\* ---------------------------------------------- extract_links, save_links
Range(f) == {f[i] : i \in DOMAIN f}

Orderings(S) == {f \in [1..Cardinality(S) -> S] : Range(f) = S}

\* list(S) of a Python set: its elements, each once, in the one order the
\* interpreter's hashing gives them
ListOfSet(S) == CHOOSE f \in Orderings(S) : TRUE

ExtractLinksNoSet(as) == [i \in 1..Len(as) |-> Urljoin(as[i])]

\* extract_links: every href resolved against the base URL, collected in a
\* set, returned as a list
ExtractLinks(as) == ListOfSet({Urljoin(as[i]) : i \in 1..Len(as)})

LinksFilename == <<"links", "txt">>

\* how `with open(links_file, 'w')` and its writes end for n links
LinkWriteOutcomes(n) ==
    {[kind |-> "ok", written |-> n], [kind |-> "open_failed", written |-> 0]}
    \cup {[kind |-> "write_failed", written |-> k] : k \in 0..(n - 1)}

\* links.txt after save_links: absent when open() failed, else the lines
\* written before the failure
SaveLinksFiles(files, lst, w) ==
    IF w.kind = "open_failed" THEN files
    ELSE Put(files, LinksFilename, SubSeq(lst, 1, w.written))

SaveLinksCountAll(lst, w) == Len(lst)

\* saved_link, the value save_links returns: one per line written
SaveLinksCount(lst, w) == w.written

LinksMode ==
    /\ pc = "links"
    /\ \A i \in 1..Len(anchors) : ~UrljoinRaises(anchors[i])
    /\ LET lst == ExtractLinks(anchors)
       IN \E w \in LinkWriteOutcomes(Len(lst)) :
            /\ links' = lst
            /\ linksWrite' = w.kind
            /\ linksFiles' = SaveLinksFiles(linksFiles, lst, w)
            /\ Summary' = Append(Summary, CountEntry("Link Extracted", SaveLinksCount(lst, w)))
    /\ pc' = NextStage("links", modes)
    /\ UNCHANGED <<result, rootFiles, cvars, avars>>
    /\ UNCHANGED_page /\ UNCHANGED_docs /\ UNCHANGED_images

\* urljoin in extract_links is under no try: its ValueError leaves scrape()
LinksRaise ==
    /\ pc = "links"
    /\ \E i \in 1..Len(anchors) : UrljoinRaises(anchors[i])
    /\ pc' = "raised"
    /\ result' = "raised"
    /\ UNCHANGED <<Summary, rootFiles, cvars, avars>>
    /\ UNCHANGED_page /\ UNCHANGED_links /\ UNCHANGED_docs /\ UNCHANGED_images

\* ------------------------- download_documents, extract_text_from_document
\* requests.get(url, timeout=5) raises (unreachable, timed out), or returns a
\* response whose status is 2xx or not
FetchOutcomes == {"raised", "non2xx", "ok"}

\* requests.get raised: no response object
FetchRaised(fetch) == fetch = "raised"

\* the candidate failed to fetch: unreachable, timed out or a non-2xx answer
FetchFailed(fetch) == fetch \in {"raised", "non2xx"}

SupportedExt == {"pdf", "docx", "doc", "csv", "xls", "xlsx", "txt"}

\* how extract_text_from_document ends for the saved file
ExtractOutcome(name, dec, twrite) ==
    IF FileExt(name) \notin SupportedExt THEN "unsupported"
    ELSE IF dec = "decode_error" THEN "decode_error"
    ELSE IF twrite = "fail" THEN "write_failed"
    ELSE "ok"

ExtractTextWritesOnFailure(files, name, dec, decoded, twrite) ==
    LET t == IF FileExt(name) = "txt" THEN files[name] ELSE decoded
    IN  IF ExtractOutcome(name, dec, twrite) = "write_failed" THEN files
        ELSE IF ExtractOutcome(name, dec, twrite) = "ok"
             THEN Put(files, TextFilename(name), clean_text(t))
        ELSE Put(files, TextFilename(name), <<>>)

\* documents/ after extract_text_from_document(filepath): a .txt file is
\* read back from the saved file, the other formats go through their
\* decoder; the cleaned text is written to <root>.txt
ExtractTextFromDocument(files, name, dec, decoded, twrite) ==
    LET t == IF FileExt(name) = "txt" THEN files[name] ELSE decoded
    IN  IF ExtractOutcome(name, dec, twrite) = "ok"
        THEN Put(files, TextFilename(name), clean_text(t))
        ELSE files

\* one pass of the loop body of download_documents over a_tag = anchors[docIdx]
DocStep ==
    /\ pc = "docs"
    /\ docIdx <= Len(anchors)
    /\ ~UrljoinRaises(anchors[docIdx])
    /\ LET href == anchors[docIdx]
           name == Basename(href)
       IN  \E fetch \in FetchOutcomes, bytes \in Contents, save \in {"ok", "fail"},
              dec \in {"ok", "decode_error"}, decoded \in DecodedTexts,
              twrite \in {"ok", "fail"} :
             IF ~IsDocHref(href) THEN
                /\ last' = [NoEvent EXCEPT !.href = href]
                /\ UNCHANGED <<docsFiles, documents_downloaded, docAttempts,
                               docFetchFailed, docSaveFailed>>
             ELSE
                /\ docAttempts' = docAttempts + 1
                /\ docFetchFailed' = docFetchFailed + (IF FetchFailed(fetch) THEN 1 ELSE 0)
                /\ IF FetchRaised(fetch) THEN
                      /\ last' = [NoEvent EXCEPT !.href = href, !.fetch = fetch]
                      /\ UNCHANGED <<docsFiles, documents_downloaded, docSaveFailed>>
                   ELSE IF save = "fail" THEN
                      /\ last' = [NoEvent EXCEPT !.href = href, !.fetch = fetch,
                                                 !.bytes = bytes]
                      /\ docSaveFailed' = docSaveFailed + 1
                      /\ UNCHANGED <<docsFiles, documents_downloaded>>
                   ELSE
                      /\ documents_downloaded' = documents_downloaded + 1
                      /\ docsFiles' = ExtractTextFromDocument(
                                         Put(docsFiles, name, bytes), name,
                                         dec, decoded, twrite)
                      /\ last' = [href |-> href, fetch |-> fetch, bytes |-> bytes,
                                  saved |-> TRUE,
                                  extract |-> ExtractOutcome(name, dec, twrite)]
                      /\ UNCHANGED docSaveFailed
    /\ docIdx' = docIdx + 1
    /\ UNCHANGED <<pc, result, Summary, rootFiles, cvars, avars>>
    /\ UNCHANGED_page /\ UNCHANGED_links /\ UNCHANGED_images

\* urljoin in the loop of download_documents is outside its try
DocRaise ==
    /\ pc = "docs"
    /\ docIdx <= Len(anchors)
    /\ UrljoinRaises(anchors[docIdx])
    /\ pc' = "raised"
    /\ result' = "raised"
    /\ UNCHANGED <<Summary, rootFiles, cvars, avars>>
    /\ UNCHANGED_page /\ UNCHANGED_links /\ UNCHANGED_docs /\ UNCHANGED_images

\* download_documents returns documents_downloaded; scrape() appends it
DocsReturn ==
    /\ pc = "docs"
    /\ docIdx > Len(anchors)
    /\ Summary' = Append(Summary, CountEntry("Document Downloaded", documents_downloaded))
    /\ pc' = NextStage("docs", modes)
    \* the locals of the call, and the record of its last pass, end with it
    /\ documents_downloaded' = 0
    /\ docFetchFailed' = 0
    /\ docSaveFailed' = 0
    /\ last' = NoEvent
    /\ UNCHANGED <<docsFiles, docIdx, docAttempts>>
    /\ UNCHANGED <<result, rootFiles, cvars, avars>>
    /\ UNCHANGED_page /\ UNCHANGED_links /\ UNCHANGED_images

\* ------------------------------ download_images, extract_text_from_image
\* images/ after extract_text_from_image(filepath): the cleaned OCR text is
\* written to <root>.txt unless OCR or the write raised
ExtractTextFromImage(files, name, ocr, decoded, twrite) ==
    IF ocr = "ok" /\ twrite = "ok"
    THEN Put(files, TextFilename(name), clean_text(decoded))
    ELSE files

\* download_images starts: soup.find_all('img', src=True) lists the image
\* tags of the page
ImagesStart ==
    /\ pc = "images"
    /\ imgs' \in SeqsUpTo(SrcUniverse, MaxImages)
    /\ pc' = "images_loop"
    /\ UNCHANGED <<modes, dirs, response, anchors, result, Summary, rootFiles, cvars, avars>>
    /\ UNCHANGED_links /\ UNCHANGED_docs /\ UNCHANGED_images

\* one pass of the loop body of download_images over img_tag = imgs[imgIdx]
ImgStep ==
    /\ pc = "images_loop"
    /\ imgIdx <= Len(imgs)
    /\ ~UrljoinRaises(imgs[imgIdx])
    /\ imgAttempts' = imgAttempts + 1
    /\ LET name == Basename(imgs[imgIdx])
       IN  \E fetch \in FetchOutcomes, bytes \in ImageBytes, save \in {"ok", "fail"},
              ocr \in {"ok", "ocr_error"}, decoded \in OcrTexts,
              twrite \in {"ok", "fail"} :
             IF FetchRaised(fetch) \/ save = "fail" THEN
                UNCHANGED <<imagesFiles, images_downloaded>>
             ELSE
                /\ images_downloaded' = images_downloaded + 1
                /\ imagesFiles' = ExtractTextFromImage(
                                     Put(imagesFiles, name, bytes), name,
                                     ocr, decoded, twrite)
    /\ imgIdx' = imgIdx + 1
    /\ UNCHANGED <<pc, result, Summary, rootFiles, cvars, avars>>
    /\ UNCHANGED_page /\ UNCHANGED_links /\ UNCHANGED_docs

\* urljoin in the loop of download_images is outside its try
ImgRaise ==
    /\ pc = "images_loop"
    /\ imgIdx <= Len(imgs)
    /\ UrljoinRaises(imgs[imgIdx])
    /\ pc' = "raised"
    /\ result' = "raised"
    /\ UNCHANGED <<Summary, rootFiles, cvars, avars>>
    /\ UNCHANGED_page /\ UNCHANGED_links /\ UNCHANGED_docs /\ UNCHANGED_images

ImagesReturn ==
    /\ pc = "images_loop"
    /\ imgIdx > Len(imgs)
    /\ Summary' = Append(Summary, CountEntry("Images Downloaded", images_downloaded))
    /\ pc' = NextStage("images", modes)
    /\ images_downloaded' = 0
    /\ UNCHANGED <<imagesFiles, imgIdx, imgAttempts>>
    /\ UNCHANGED <<result, rootFiles, cvars, avars>>
    /\ UNCHANGED_page /\ UNCHANGED_links /\ UNCHANGED_docs

\* ---------------------------------------------------- save_webpage_text
WebpageTextFilename == <<"webpage_text", "txt">>

\* what save_webpage_text returns: its except branch has no return
SaveWebpageTextResult(outcome) ==
    IF outcome = "ok" THEN StatusEntry("Text extracted.") ELSE NoneEntry

TextMode ==
    /\ pc = "text"
    /\ \E pagetext \in PageTexts, outcome \in {"ok", "raised"} :
         /\ rootFiles' = IF outcome = "ok"
                         THEN Put(rootFiles, WebpageTextFilename,
                                  JoinNonSpaceTokens(pagetext))
                         ELSE rootFiles
         /\ Summary' = Append(Summary, SaveWebpageTextResult(outcome))
    /\ pc' = NextStage("text", modes)
    /\ UNCHANGED <<result, cvars, avars>>
    /\ UNCHANGED_page /\ UNCHANGED_links /\ UNCHANGED_docs /\ UNCHANGED_images

\* `return Summary`
Return ==
    /\ pc = "return"
    /\ pc' = "done"
    /\ result' = "summary"
    /\ UNCHANGED <<Summary, rootFiles, cvars, avars>>
    /\ UNCHANGED_page /\ UNCHANGED_links /\ UNCHANGED_docs /\ UNCHANGED_images

CleanIdle ==
    /\ text = <<>>
    /\ cleaned = <<>>
    /\ recleaned = <<>>
    /\ cpc = "idle"

\* no Streamlit page: the scraper is used on its own
AppIdle ==
    /\ ui = "none"
    /\ shown = {}
    /\ archive = FALSE

\* the state after WebScraper(url, ...) for every choice of the four flags
Init == CleanIdle /\ AppIdle /\ \E m \in SUBSET Modes : ScraperStart(m)

Next ==
    \/ FetchRootOk
    \/ FetchRootFail
    \/ LinksMode
    \/ LinksRaise
    \/ DocStep
    \/ DocRaise
    \/ DocsReturn
    \/ ImagesStart
    \/ ImgStep
    \/ ImgRaise
    \/ ImagesReturn
    \/ TextMode
    \/ Return

Spec == Init /\ [][Next]_vars

\* ------------------------------------------------------- app.py, main()
\* main() has built the scraper inside the spinner: it goes on only when at
\* least one extraction option is ticked
InitApp ==
    /\ CleanIdle
    /\ \E m \in (SUBSET Modes) \ {{}} : ScraperStart(m)
    /\ ui = "scraping"
    /\ shown = {}
    /\ archive = FALSE

\* scraper.scrape() raised: `except Exception` shows st.error
AppScrapeRaised ==
    /\ ui = "scraping"
    /\ result = "raised"
    /\ ui' = "error"
    /\ shown' = shown \cup {"error"}
    /\ UNCHANGED <<archive, svars, cvars>>

\* scrape() returned, a summary or None: create_zip_file(scraper.output_dir)
\* archives the workspace, or raises into `except Exception`
AppCreateZip ==
    /\ ui = "scraping"
    /\ result \in {"summary", "none"}
    /\ \E zip \in {"ok", "raised"} :
         IF zip = "ok"
         THEN /\ archive' = TRUE
              /\ ui' = "zipped"
              /\ UNCHANGED shown
         ELSE /\ ui' = "error"
              /\ shown' = shown \cup {"error"}
              /\ UNCHANGED archive
    /\ UNCHANGED <<svars, cvars>>

\* st.success(f"Scraping completed for {url}") and the summary heading
AppShowSuccess ==
    /\ ui = "zipped"
    /\ shown' = shown \cup {"success", "summary_heading"}
    /\ ui' = "summary"
    /\ UNCHANGED <<archive, svars, cvars>>

\* `for summary_item in scraping_summary: st.info(...)`, then the download
\* button; iterating None raises TypeError into `except Exception`.  The
\* preview that follows looks for text.txt, a file the scraper never writes.
AppShowSummary ==
    /\ ui = "summary"
    /\ IF result = "none"
       THEN /\ ui' = "error"
            /\ shown' = shown \cup {"error"}
       ELSE /\ ui' = "finished"
            /\ shown' = shown \cup {"download_button"}
                              \cup (IF Summary = <<>> THEN {} ELSE {"summary_items"})
    /\ UNCHANGED <<archive, svars, cvars>>

NextApp ==
    \/ Next
    \/ AppScrapeRaised
    \/ AppCreateZip
    \/ AppShowSuccess
    \/ AppShowSummary

SpecApp == InitApp /\ [][NextApp]_vars

\* ---------------------------------------------------- claims on scrape()
NumDocCandidates(as) == Cardinality({i \in 1..Len(as) : IsDocHref(as[i])})

LinesWritten ==
    IF LinksFilename \in DOMAIN linksFiles THEN Len(linksFiles[LinksFilename]) ELSE 0

NoFileWritten ==
    /\ linksFiles = NoFiles
    /\ docsFiles = NoFiles
    /\ imagesFiles = NoFiles
    /\ rootFiles = NoFiles

\* C1: when the loop of download_documents has ended (every save having
\* succeeded), each of the N document candidates was requested once and the
\* count is N minus the number of candidates that failed to fetch
\* (unreachable, timed out, or answered non-2xx).
C1_CountIsCandidatesMinusFailed ==
    (pc = "docs" /\ docIdx > Len(anchors) /\ docSaveFailed = 0) =>
        /\ docAttempts = NumDocCandidates(anchors)
        /\ documents_downloaded = NumDocCandidates(anchors) - docFetchFailed

\* C2: once the root page fetch has failed, the run is aborted: no asset was
\* requested, no file of any mode was written, and no summary, not even a
\* partial one, is built or returned.
C2_RootFailureAborts ==
    response = "none" =>
        /\ pc = "aborted"
        /\ result = "none"
        /\ Summary = <<>>
        /\ NoFileWritten
        /\ linksWrite = "unset"
        /\ docAttempts = 0
        /\ imgAttempts = 0

C2_Witness ==
    /\ response = "none"
    /\ pc = "aborted"
    /\ modes = Modes

\* C3 as stated: when the root page fetch has failed, no directory but the
\* workspace root exists.
C3_NoSubdirAtRootFailure == response = "none" => dirs \subseteq {"root"}

\* C3 amended: when the root page fetch has failed, the directories that
\* exist are those the constructor made for the enabled modes (links/ iff
\* Links, documents/ iff Documents, images/ iff Images, the root iff any mode
\* is enabled), and none of them holds a file.
C3_OnlyConstructorDirsAtRootFailure ==
    response = "none" =>
        /\ \A d \in dirs : d \in {"root", "links", "documents", "images"}
        /\ ("links" \in dirs) = ("Links" \in modes)
        /\ ("documents" \in dirs) = ("Documents" \in modes)
        /\ ("images" \in dirs) = ("Images" \in modes)
        /\ ("root" \in dirs) = (modes # {})
        /\ NoFileWritten

C3_Witness ==
    /\ response = "none"
    /\ modes = {"Links", "Images"}
    /\ dirs = {"root", "links", "images"}

\* C4: in every state of every run, for every subset of the modes, the mode
\* directories that exist are exactly those of the enabled modes (the
\* workspace root existing as Text's directory and as the parent of the
\* others), and a disabled mode has no directory and no file.
C4_OnlyEnabledModesCreate ==
    /\ ("links" \in dirs) = ("Links" \in modes)
    /\ ("documents" \in dirs) = ("Documents" \in modes)
    /\ ("images" \in dirs) = ("Images" \in modes)
    /\ ("Text" \in modes) => ("root" \in dirs)
    /\ ("root" \in dirs) => (modes # {})
    /\ ("Links" \notin modes) => linksFiles = NoFiles
    /\ ("Documents" \notin modes) => docsFiles = NoFiles
    /\ ("Images" \notin modes) => imagesFiles = NoFiles
    /\ ("Text" \notin modes) => rootFiles = NoFiles

C4_Witness ==
    /\ pc = "done"
    /\ modes = {"Links", "Text"}
    /\ dirs = {"root", "links"}
    /\ LinksFilename \in DOMAIN linksFiles
    /\ WebpageTextFilename \in DOMAIN rootFiles
    /\ docsFiles = NoFiles
    /\ imagesFiles = NoFiles

\* C5: a pass of the document loop that saved the candidate's bytes and whose
\* text extraction ended on an unsupported extension or a decoding failure
\* changes documents/ by the raw file alone (no text file is written),
\* adds one to the count, and leaves the loop running.
C5_FailedExtractionKeepsRaw ==
    [][ ( /\ pc = "docs"
          /\ docIdx' = docIdx + 1
          /\ last'.saved
          /\ last'.extract \in {"unsupported", "decode_error"} )
        => ( /\ docsFiles' = Put(docsFiles, Basename(last'.href), last'.bytes)
             /\ documents_downloaded' = documents_downloaded + 1
             /\ pc' = "docs" ) ]_vars

C5_Witness ==
    /\ pc = "docs"
    /\ last.saved
    /\ last.extract = "decode_error"
    /\ docIdx = 2
    /\ docIdx <= Len(anchors)
    /\ documents_downloaded = 1
    /\ DOMAIN docsFiles = {Basename(last.href)}
    /\ docsFiles[Basename(last.href)] = last.bytes

\* C6: after a pass of the document loop that saved a candidate,
\* documents/<basename> holds exactly the downloaded bytes, and when the text
\* extraction succeeded documents/<root>.txt exists beside it.
C6_RawFileKeepsDownloadedBytes ==
    last.saved =>
        /\ Basename(last.href) \in DOMAIN docsFiles
        /\ docsFiles[Basename(last.href)] = last.bytes
        /\ last.extract = "ok" => TextFilename(Basename(last.href)) \in DOMAIN docsFiles

\* C7: once the Links mode has run, the list extract_links returned holds
\* each resolved URL once, the count save_links returned is the number of
\* lines in links.txt, and, the write having succeeded, that is the number of
\* distinct resolved URLs of all the page's anchors.
C7_LinksDistinctAndCounted ==
    linksWrite # "unset" =>
        /\ \A i, j \in 1..Len(links) : links[i] = links[j] => i = j
        /\ Summary[1] = CountEntry("Link Extracted", LinesWritten)
        /\ linksWrite = "ok" =>
              LinesWritten = Cardinality({Urljoin(anchors[i]) : i \in 1..Len(anchors)})

C7_Witness ==
    /\ linksWrite = "ok"
    /\ Len(anchors) = 2
    /\ anchors[1] # anchors[2]
    /\ Len(links) = 1
    /\ Summary[1] = CountEntry("Link Extracted", 1)

C10_OneEntryPerEnabledMode ==
    result = "summary" =>
        /\ Len(Summary) = Cardinality(modes)
        /\ \A i \in 1..Len(Summary) : Summary[i].kind \in {"count", "status"}

\* C11: a run of scrape() that has ended has reached Done (a summary is
\* returned) or Aborted (the root fetch failed), and at Done every document
\* candidate and every image tag was requested exactly once.
C11_EndsDoneOrAbortedOnce ==
    result # "running" =>
        /\ pc \in {"done", "aborted"}
        /\ pc = "done" =>
              /\ "Documents" \in modes => docAttempts = NumDocCandidates(anchors)
              /\ "Images" \in modes => imgAttempts = Len(imgs)

\* C12: the page shows the success message only for a run whose scrape()
\* returned a summary; after a failed root fetch it never shows the success
\* message and builds no archive.
C12_SuccessOnlyWithSummary ==
    /\ "success" \in shown => result = "summary"
    /\ response = "none" => ("success" \notin shown /\ ~archive)

\* ------------------------------------------------- clean_text, applied
InitClean ==
    /\ text \in Strings(MaxLen)
    /\ cleaned = <<>>
    /\ recleaned = <<>>
    /\ cpc = "input"
    /\ ScraperStart({})
    /\ AppIdle

CleanOnce ==
    /\ cpc = "input"
    /\ cleaned' = clean_text(text)
    /\ cpc' = "once"
    /\ UNCHANGED <<text, recleaned, svars, avars>>

CleanTwice ==
    /\ cpc = "once"
    /\ recleaned' = clean_text(cleaned)
    /\ cpc' = "twice"
    /\ UNCHANGED <<text, cleaned, svars, avars>>

NextClean == CleanOnce \/ CleanTwice

SpecClean == InitClean /\ [][NextClean]_vars

\* C9 as stated: clean_text is idempotent on every input.
C9_IdempotentAllInputs == cpc = "twice" => recleaned = cleaned

\* C9 amended: clean_text(clean_text(x)) = clean_text(x) for every x whose
\* first cleaning holds no tag-like substring.
C9_IdempotentWhenNoTagRemains ==
    (cpc = "twice" /\ ~HasTag(cleaned)) => recleaned = cleaned

C9_Witness ==
    /\ cpc = "twice"
    /\ text = <<"a", "\n", "a">>
    /\ cleaned = <<"a", " ", "a">>
    /\ ~HasTag(cleaned)
    /\ recleaned = cleaned
====
